---- MODULE Spec2Model ----
(***************************************************************************)
(* Order lifecycle and checkout workflow of the layered e-commerce API:    *)
(* OrderService (createOrder, getOrderById, updateOrderStatus,             *)
(* updatePaymentStatus, cancelOrder, restoreStock, cache invalidation),    *)
(* the Order and Product domain objects, the Order/Product repositories    *)
(* and the product operations of ProductService that feed the workflow.    *)
(*                                                                         *)
(* Money is kept in thousandths of the currency unit so that the 10% tax   *)
(* of a price given in whole cents is an integer.                          *)
(***************************************************************************)
EXTENDS Integers, Sequences, FiniteSets, TLC

\* ---------------------------------------------------------------- bounds
MaxStock == 2        \* largest stock a product is created or set with
StockCap == 3        \* restorations are explored while stock stays <= StockCap
MaxQty   == 1        \* largest quantity of a requested line item

\* ------------------------------------------------------------- universes
\* two products, one order id (the id the Order Store gives the first order
\* created), and three user ids: u1 is an active account, u2 an inactive one
\* and u3 is not in the User Store
Products == {"p1", "p2"}
OrderIds == {"o1"}
Users    == {"u1", "u2", "u3"}

\* the price each product is created with, in thousandths: 50.00 and 25.05
PriceOf(p) == IF p = "p1" THEN 50000 ELSE 25050
\* the name each product is created with
NameOf(p)  == p

OrderStatus   == {"PENDING", "CONFIRMED", "PROCESSING", "SHIPPED",
                  "DELIVERED", "CANCELLED", "REFUNDED"}
PaymentStatus == {"PENDING", "PAID", "FAILED", "REFUNDED"}

\* ------------------------------------------------------------- constants
TaxRatePercent        == 10        \* subtotal * 0.1
FreeShippingThreshold == 100000    \* 100, in thousandths
ShippingFee           == 10000     \* 10, in thousandths

VARIABLES
  users,       \* User Store: id -> [exists, isActive]
  products,    \* Product Store: id -> [exists, name, stock, isActive, price]
  orders,      \* Order Store: id -> order row with its items
  orderCache,  \* cache entries order:<id>
  last,        \* the last call: operation, arguments and outcome
  lastRequest, \* the request of the last createOrder call, where recorded
  fault,       \* the infrastructure failure met by the last call, if any
  calls,       \* createOrder calls in progress, where calls overlap
  carts,       \* cache entries cart:<userId>, where carts are used
  productCache, \* cache entries product:<id>, where products are read
  validation   \* what the last validateCartForCheckout call returned

vars == <<users, products, orders, orderCache, last, lastRequest, fault, calls,
          carts, productCache, validation>>

\* ------------------------------------------------------- records / rows
NoProduct == [exists |-> FALSE, name |-> "", stock |-> 0, isActive |-> FALSE,
              price |-> 0]

NoOrder == [exists |-> FALSE, userId |-> "", items |-> <<>>,
            subtotal |-> 0, taxes |-> 0, shipping |-> 0, total |-> 0,
            status |-> "PENDING", paymentStatus |-> "PENDING",
            shippedAt |-> FALSE, deliveredAt |-> FALSE]

\* a call record: result is "ok" or the kind of error thrown ("notFound",
\* "validation", "businessLogic" for the OrderError factories, "error" for a
\* plain Error); msg names the message of the error
Call(op, id, arg, result, msg) ==
  [op |-> op, id |-> id, arg |-> arg, result |-> result, msg |-> msg]

\* no request recorded, no failure met, no call in progress
NoRequest == [userId |-> "", cartItems |-> <<>>, hasStreet |-> FALSE]
NoFault   == [kind |-> "none", at |-> 0]
NoCalls   == <<>>
NoCart    == [exists |-> FALSE, items |-> <<>>, total |-> 0, itemCount |-> 0]
NoCarts   == <<>>
NoProductCache == <<>>
NoValidation == [isValid |-> FALSE, errors |-> <<>>]

\* outcome of a domain method: it either throws or returns the changed object
Thrown(o) == [ok |-> FALSE, obj |-> o]
Done(o)   == [ok |-> TRUE, obj |-> o]

\* ------------------------------------------------------ Product (domain)
canFulfillQuantity(p, quantity) == p.stock >= quantity

\* reduceStock without its guard
reduceStockUnchecked(p, quantity) == Done([p EXCEPT !.stock = @ - quantity])

reduceStock(p, quantity) ==
  IF ~canFulfillQuantity(p, quantity) THEN Thrown(p)
  ELSE Done([p EXCEPT !.stock = @ - quantity])

increaseStock(p, quantity) ==
  IF quantity <= 0 THEN Thrown(p)
  ELSE Done([p EXCEPT !.stock = @ + quantity])

\* Product.activate and Product.deactivate
activate(p)   == Done([p EXCEPT !.isActive = TRUE])
deactivate(p) == Done([p EXCEPT !.isActive = FALSE])

\* Product.validate as far as the modelled fields go
ProductValidate(p) == p.price >= 0 /\ p.stock >= 0

\* -------------------------------------------------------- Order (domain)
confirm(o) ==
  IF o.status # "PENDING" THEN Thrown(o)
  ELSE Done([o EXCEPT !.status = "CONFIRMED"])

process(o) ==
  IF o.status # "CONFIRMED" THEN Thrown(o)
  ELSE Done([o EXCEPT !.status = "PROCESSING"])

\* ship that leaves shippedAt alone
shipWithoutTimestamp(o) ==
  IF o.status # "PROCESSING" THEN Thrown(o)
  ELSE Done([o EXCEPT !.status = "SHIPPED"])

ship(o) ==
  IF o.status # "PROCESSING" THEN Thrown(o)
  ELSE Done([o EXCEPT !.status = "SHIPPED", !.shippedAt = TRUE])

\* deliver without its source-status guard
deliverFromAnyStatus(o) ==
  Done([o EXCEPT !.status = "DELIVERED", !.deliveredAt = TRUE])

deliver(o) ==
  IF o.status # "SHIPPED" THEN Thrown(o)
  ELSE Done([o EXCEPT !.status = "DELIVERED", !.deliveredAt = TRUE])

canBeCancelled(o) == o.status \notin {"DELIVERED", "CANCELLED", "REFUNDED"}

\* cancel whose guard forgets CANCELLED
cancelAgain(o) ==
  IF o.status \in {"DELIVERED", "REFUNDED"} THEN Thrown(o)
  ELSE Done([o EXCEPT !.status = "CANCELLED"])

cancel(o) ==
  IF o.status \in {"DELIVERED", "CANCELLED", "REFUNDED"} THEN Thrown(o)
  ELSE Done([o EXCEPT !.status = "CANCELLED"])

markAsPaid(o) == Done([o EXCEPT !.paymentStatus = "PAID"])

\* markPaymentFailed that cancels the order as well
markPaymentFailedCancelling(o) ==
  Done([o EXCEPT !.paymentStatus = "FAILED", !.status = "CANCELLED"])

markPaymentFailed(o) == Done([o EXCEPT !.paymentStatus = "FAILED"])

\* refund without its paymentStatus guard
refundWhateverPayment(o) ==
  Done([o EXCEPT !.paymentStatus = "REFUNDED", !.status = "REFUNDED"])

refund(o) ==
  IF o.paymentStatus # "PAID" THEN Thrown(o)
  ELSE Done([o EXCEPT !.paymentStatus = "REFUNDED", !.status = "REFUNDED"])

canBeRefunded(o) ==
  o.paymentStatus = "PAID" /\ o.status \in {"DELIVERED", "SHIPPED"}

\* Order.validate: TRUE when the list of errors is empty
OrderValidate(o, hasStreet) ==
  /\ o.userId # ""
  /\ Len(o.items) # 0
  /\ hasStreet
  /\ \A i \in 1..Len(o.items) :
       o.items[i].quantity > 0 /\ o.items[i].unitPrice >= 0

\* ------------------------------------------------------------- pricing
TaxOf(subtotal) == (subtotal * TaxRatePercent) \div 100

\* free shipping from the threshold on, instead of above it
ShippingOfInclusive(subtotal) ==
  IF subtotal >= FreeShippingThreshold THEN 0 ELSE ShippingFee

ShippingOf(subtotal) == IF subtotal > FreeShippingThreshold THEN 0 ELSE ShippingFee

RECURSIVE SumSubtotals(_)
SumSubtotals(items) ==
  IF items = <<>> THEN 0
  ELSE items[1].subtotal + SumSubtotals(Tail(items))

\* an update that rebuilds the items from the products as they are now
OrderRepoUpdateLiveItems(row, o) ==
  [row EXCEPT !.status = o.status,
              !.paymentStatus = o.paymentStatus,
              !.shippedAt = IF o.shippedAt THEN TRUE ELSE @,
              !.deliveredAt = IF o.deliveredAt THEN TRUE ELSE @,
              !.items = [i \in 1..Len(row.items) |->
                           [row.items[i] EXCEPT
                              !.productName = products[row.items[i].productId].name,
                              !.unitPrice = products[row.items[i].productId].price]]]

\* ------------------------------------------------------- repositories
\* OrderRepository.update writes status and paymentStatus, and the two
\* timestamps only when they are set on the object handed in.
OrderRepoUpdate(row, o) ==
  [row EXCEPT !.status = o.status,
              !.paymentStatus = o.paymentStatus,
              !.shippedAt = IF o.shippedAt THEN TRUE ELSE @,
              !.deliveredAt = IF o.deliveredAt THEN TRUE ELSE @]

\* ProductRepository.update handed a Partial<Product>: name is written when
\* truthy, price, stock and isActive when they are not undefined
ProductRepoUpdatePartial(row, productData) ==
  [row EXCEPT
     !.name = IF "name" \in DOMAIN productData /\ productData.name # ""
              THEN productData.name ELSE @,
     !.price = IF "price" \in DOMAIN productData THEN productData.price ELSE @,
     !.stock = IF "stock" \in DOMAIN productData THEN productData.stock ELSE @,
     !.isActive = IF "isActive" \in DOMAIN productData
                  THEN productData.isActive ELSE @]

\* an update that writes stock only when it is truthy
ProductRepoUpdateTruthyStock(row, p) ==
  [row EXCEPT !.name = IF p.name # "" THEN p.name ELSE @,
              !.stock = IF p.stock # 0 THEN p.stock ELSE @,
              !.isActive = p.isActive, !.price = p.price]

\* ProductRepository.update writes every field of the object handed in; the
\* name only when it is truthy
ProductRepoUpdate(row, p) ==
  [row EXCEPT !.name = IF p.name # "" THEN p.name ELSE @,
              !.stock = p.stock, !.isActive = p.isActive, !.price = p.price]

\* ------------------------------------------------ OrderService helpers
LineItems == [productId : Products, quantity : 0..MaxQty]

\* the requests explored: the carts of no line item, of one line item, and of
\* two line items whose first takes one unit, for the active user with an
\* address (a cart whose first item has no positive quantity is rejected at
\* that item, so it is explored with one item only), a cart of one line item
\* without the street, and one cart for the inactive and for the unknown user
CartChoices ==
  {<<>>} \cup {<<a>> : a \in LineItems}
         \cup {<<a, b>> : a \in {x \in LineItems : x.quantity = 1}, b \in LineItems}

Requests ==
  {[userId |-> "u1", cartItems |-> c, hasStreet |-> TRUE] : c \in CartChoices}
  \cup {[userId |-> "u1", cartItems |-> <<a>>, hasStreet |-> FALSE] :
           a \in [productId : Products, quantity : {1}]}
  \cup {[userId |-> u, cartItems |-> <<>>, hasStreet |-> TRUE] : u \in {"u2", "u3"}}

\* the per-item checks without the stock check
RECURSIVE FirstItemErrorNoStockCheck(_, _)
FirstItemErrorNoStockCheck(prods, cartItems) ==
  IF cartItems = <<>> THEN "ok"
  ELSE LET c == cartItems[1]
           p == prods[c.productId]
       IN IF c.quantity <= 0 THEN "invalidQuantity"
          ELSE IF ~p.exists THEN "productNotFound"
          ELSE IF ~p.isActive THEN "productNotAvailable"
          ELSE FirstItemErrorNoStockCheck(prods, Tail(cartItems))

\* the per-item checks with the product looked up before the quantity is
\* looked at
RECURSIVE FirstItemErrorProductFirst(_, _)
FirstItemErrorProductFirst(prods, cartItems) ==
  IF cartItems = <<>> THEN "ok"
  ELSE LET c == cartItems[1]
           p == prods[c.productId]
       IN IF ~p.exists THEN "productNotFound"
          ELSE IF ~p.isActive THEN "productNotAvailable"
          ELSE IF c.quantity <= 0 THEN "invalidQuantity"
          ELSE IF ~canFulfillQuantity(p, c.quantity) THEN "insufficientStock"
          ELSE FirstItemErrorProductFirst(prods, Tail(cartItems))

\* the per-item checks of createOrder, in request order: the message of the
\* first error thrown, or "ok"
RECURSIVE FirstItemError(_, _)
FirstItemError(prods, cartItems) ==
  IF cartItems = <<>> THEN "ok"
  ELSE LET c == cartItems[1]
           p == prods[c.productId]
       IN IF c.quantity <= 0 THEN "invalidQuantity"
          ELSE IF ~p.exists THEN "productNotFound"
          ELSE IF ~p.isActive THEN "productNotAvailable"
          ELSE IF ~canFulfillQuantity(p, c.quantity) THEN "insufficientStock"
          ELSE FirstItemError(prods, Tail(cartItems))

KindOf(msg) ==
  CASE msg \in {"userNotFound", "productNotFound", "orderNotFound",
                "itemNotFound"} -> "notFound"
    [] msg \in {"noItems", "invalidQuantity", "orderValidationFailed",
                "invalidStatus", "invalidPaymentStatus",
                "negativeQuantity"} -> "validation"
    [] msg \in {"userInactive", "productNotAvailable", "insufficientStock",
                "cannotBeCancelled"} -> "businessLogic"
    [] msg = "" -> "ok"
    [] OTHER -> "error"

\* what a caller receives for each kind: the name and the statusCode of the
\* error object; a plain Error has no statusCode
ErrorThrown(kind) ==
  CASE kind = "notFound"      -> [name |-> "OrderError", statusCode |-> 404]
    [] kind = "validation"    -> [name |-> "OrderError", statusCode |-> 400]
    [] kind = "businessLogic" -> [name |-> "OrderError", statusCode |-> 400]
    [] kind = "internal"      -> [name |-> "OrderError", statusCode |-> 500]
    [] OTHER                  -> [name |-> "Error", statusCode |-> 0]

\* the order items built by createOrder: name and price are snapshots
OrderItemsOf(prods, cartItems) ==
  [i \in 1..Len(cartItems) |->
     [productId |-> cartItems[i].productId,
      productName |-> prods[cartItems[i].productId].name,
      quantity  |-> cartItems[i].quantity,
      unitPrice |-> prods[cartItems[i].productId].price,
      subtotal  |-> prods[cartItems[i].productId].price * cartItems[i].quantity]]

\* the stock reservation loop of createOrder: each item re-reads the product,
\* reduces its stock and writes it; a throw of reduceStock ends the loop
RECURSIVE ReserveStock(_, _)
ReserveStock(prods, items) ==
  IF items = <<>> THEN [ok |-> TRUE, prods |-> prods]
  ELSE LET it == items[1]
           p  == prods[it.productId]
       IN IF ~p.exists THEN ReserveStock(prods, Tail(items))
          ELSE LET r == reduceStock(p, it.quantity)
               IN IF ~r.ok THEN [ok |-> FALSE, prods |-> prods]
                  ELSE ReserveStock(
                         [prods EXCEPT ![it.productId] = ProductRepoUpdate(@, r.obj)],
                         Tail(items))

\* a restoration that handles the first item only
RestoreFirstItemOnly(prods, items) ==
  IF items = <<>> THEN prods
  ELSE LET it == items[1]
           p  == prods[it.productId]
       IN IF ~p.exists THEN prods
          ELSE [prods EXCEPT ![it.productId].stock = @ + it.quantity]

\* restoreStock: each item re-reads the product, increases its stock and
\* writes it; a throw is caught outside the loop, which ends it silently
RECURSIVE RestoreLoop(_, _)
RestoreLoop(prods, items) ==
  IF items = <<>> THEN prods
  ELSE LET it == items[1]
           p  == prods[it.productId]
       IN IF ~p.exists THEN RestoreLoop(prods, Tail(items))
          ELSE LET r == increaseStock(p, it.quantity)
               IN IF ~r.ok THEN prods
                  ELSE RestoreLoop(
                         [prods EXCEPT ![it.productId] = ProductRepoUpdate(@, r.obj)],
                         Tail(items))

restoreStock(prods, order) == RestoreLoop(prods, order.items)

\* getOrderById: the cached entry when there is one, else the stored row
Load(o) == IF orderCache[o].exists THEN orderCache[o] ELSE orders[o]

\* ... and a miss on an existing order populates the cache
CacheAfterGet(o) ==
  IF ~orderCache[o].exists /\ orders[o].exists
  THEN [orderCache EXCEPT ![o] = orders[o]]
  ELSE orderCache

\* an invalidation that deletes nothing
clearOrderCacheNothing(cache, o) == cache

\* clearOrderCache
clearOrderCache(cache, o) == [cache EXCEPT ![o] = NoOrder]

WithinCap(prods) == \A p \in Products : prods[p].stock <= StockCap

Init ==
  /\ users = [u \in Users |->
                [exists |-> u # "u3", isActive |-> u = "u1"]]
  /\ products = [p \in Products |-> NoProduct]
  /\ orders = [o \in OrderIds |-> NoOrder]
  /\ orderCache = [o \in OrderIds |-> NoOrder]
  /\ last = Call("init", "", "", "ok", "")
  /\ lastRequest = NoRequest
  /\ fault = NoFault
  /\ calls = NoCalls
  /\ carts = NoCarts
  /\ productCache = NoProductCache
  /\ validation = NoValidation

\* the product data explored: an active product with any stock, a negative
\* one included, and an inactive product
ProductData ==
  {[stock |-> st, isActive |-> TRUE] : st \in -1..MaxStock}
  \cup {[stock |-> 1, isActive |-> FALSE]}

\* ProductService.createProduct
CreateProduct(p, productData) ==
  LET prod == [exists |-> TRUE, name |-> NameOf(p), stock |-> productData.stock,
               isActive |-> productData.isActive, price |-> PriceOf(p)]
  IN /\ UNCHANGED <<users, orders, orderCache>>
     /\ IF ~ProductValidate(prod)
        THEN /\ last' = Call("createProduct", "", "", "error", "validationFailed")
             /\ UNCHANGED products
        ELSE IF products[p].exists
        THEN /\ last' = Call("createProduct", "", "", "error", "skuExists")
             /\ UNCHANGED products
        ELSE /\ products' = [products EXCEPT ![p] = prod]
             /\ last' = Call("createProduct", "", "", "ok", "")

\* OrderService.createOrder
CreateOrder(request) ==
  LET u         == request.userId
      cartItems == request.cartItems
      hasStreet == request.hasStreet
      user     == users[u]
      itemErr  == FirstItemError(products, cartItems)
      items    == OrderItemsOf(products, cartItems)
      subtotal == SumSubtotals(items)
      taxes    == TaxOf(subtotal)
      shipping == ShippingOf(subtotal)
      order    == [exists |-> TRUE, userId |-> u, items |-> items,
                   subtotal |-> subtotal, taxes |-> taxes,
                   shipping |-> shipping,
                   total |-> subtotal + taxes + shipping,
                   status |-> "PENDING", paymentStatus |-> "PENDING",
                   shippedAt |-> FALSE, deliveredAt |-> FALSE]
      err      == IF ~user.exists THEN "userNotFound"
                  ELSE IF ~user.isActive THEN "userInactive"
                  ELSE IF Len(cartItems) = 0 THEN "noItems"
                  ELSE IF itemErr # "ok" THEN itemErr
                  ELSE IF ~OrderValidate(order, hasStreet) THEN "orderValidationFailed"
                  ELSE ""
      reserved == ReserveStock(products, items)
  IN /\ UNCHANGED <<users, orderCache>>
     /\ IF err # ""
        THEN /\ last' = Call("createOrder", "", u, KindOf(err), err)
             /\ UNCHANGED <<products, orders>>
        ELSE \E id \in OrderIds :
               /\ ~orders[id].exists
               /\ orders' = [orders EXCEPT ![id] = order]
               /\ products' = reserved.prods
               /\ last' = IF reserved.ok
                          THEN Call("createOrder", id, u, "ok", "")
                          ELSE Call("createOrder", id, u,
                                    KindOf("reduceStockFailed"), "reduceStockFailed")

\* OrderService.getOrderById
GetOrderById(o) ==
  /\ UNCHANGED <<users, products, orders>>
  /\ orderCache' = CacheAfterGet(o)
  /\ last' = Call("getOrderById", o, "", "ok", "")

\* the switch of updateOrderStatus: the domain method the target status maps to
StatusEvent(order, status) ==
  CASE status = "CONFIRMED"  -> confirm(order)
    [] status = "PROCESSING" -> process(order)
    [] status = "SHIPPED"    -> ship(order)
    [] status = "DELIVERED"  -> deliver(order)
    [] status = "CANCELLED"  -> cancel(order)
    [] OTHER                 -> Thrown(order)

\* a switch that has a case for REFUNDED too
HasStatusEventOrRefunded(status) ==
  status \in {"CONFIRMED", "PROCESSING", "SHIPPED", "DELIVERED", "CANCELLED",
              "REFUNDED"}

HasStatusEvent(status) ==
  status \in {"CONFIRMED", "PROCESSING", "SHIPPED", "DELIVERED", "CANCELLED"}

\* OrderService.updateOrderStatus
UpdateOrderStatus(o, status) ==
  LET loaded == Load(o)
      step   == StatusEvent(loaded, status)
  IN /\ UNCHANGED users
     /\ IF ~loaded.exists
        THEN /\ last' = Call("updateOrderStatus", o, status, KindOf("orderNotFound"), "orderNotFound")
             /\ UNCHANGED <<products, orders, orderCache>>
        ELSE IF ~HasStatusEvent(status)
        THEN /\ last' = Call("updateOrderStatus", o, status, KindOf("invalidStatus"), "invalidStatus")
             /\ orderCache' = CacheAfterGet(o)
             /\ UNCHANGED <<products, orders>>
        ELSE IF ~step.ok
        THEN /\ last' = Call("updateOrderStatus", o, status, KindOf("illegalTransition"), "illegalTransition")
             /\ orderCache' = CacheAfterGet(o)
             /\ UNCHANGED <<products, orders>>
        ELSE /\ products' = IF status = "CANCELLED"
                            THEN restoreStock(products, step.obj)
                            ELSE products
             /\ WithinCap(products')
             /\ orders' = [orders EXCEPT ![o] = OrderRepoUpdate(@, step.obj)]
             /\ orderCache' = clearOrderCache(CacheAfterGet(o), o)
             /\ last' = Call("updateOrderStatus", o, status, "ok", "")

\* the switch without the auto-confirmation of a paid PENDING order
PaymentEventNoAutoConfirm(order, paymentStatus) ==
  CASE paymentStatus = "PAID"     -> markAsPaid(order)
    [] paymentStatus = "FAILED"   -> markPaymentFailed(order)
    [] paymentStatus = "REFUNDED" -> refund(order)
    [] OTHER                      -> Thrown(order)

\* the switch of updatePaymentStatus
PaymentEvent(order, paymentStatus) ==
  CASE paymentStatus = "PAID" ->
         LET paid == markAsPaid(order).obj
         IN IF paid.status = "PENDING" THEN confirm(paid) ELSE Done(paid)
    [] paymentStatus = "FAILED"   -> markPaymentFailed(order)
    [] paymentStatus = "REFUNDED" -> refund(order)
    [] OTHER                      -> Thrown(order)

HasPaymentEvent(paymentStatus) == paymentStatus \in {"PAID", "FAILED", "REFUNDED"}

\* OrderService.updatePaymentStatus
UpdatePaymentStatus(o, paymentStatus) ==
  LET loaded == Load(o)
      step   == PaymentEvent(loaded, paymentStatus)
  IN /\ UNCHANGED users
     /\ IF ~loaded.exists
        THEN /\ last' = Call("updatePaymentStatus", o, paymentStatus, KindOf("orderNotFound"), "orderNotFound")
             /\ UNCHANGED <<products, orders, orderCache>>
        ELSE IF ~HasPaymentEvent(paymentStatus)
        THEN /\ last' = Call("updatePaymentStatus", o, paymentStatus, KindOf("invalidPaymentStatus"), "invalidPaymentStatus")
             /\ orderCache' = CacheAfterGet(o)
             /\ UNCHANGED <<products, orders>>
        ELSE IF ~step.ok
        THEN /\ last' = Call("updatePaymentStatus", o, paymentStatus, KindOf("illegalTransition"), "illegalTransition")
             /\ orderCache' = CacheAfterGet(o)
             /\ UNCHANGED <<products, orders>>
        ELSE /\ products' = IF paymentStatus = "REFUNDED"
                            THEN restoreStock(products, step.obj)
                            ELSE products
             /\ WithinCap(products')
             /\ orders' = [orders EXCEPT ![o] = OrderRepoUpdate(@, step.obj)]
             /\ orderCache' = clearOrderCache(CacheAfterGet(o), o)
             /\ last' = Call("updatePaymentStatus", o, paymentStatus, "ok", "")

\* OrderService.cancelOrder
CancelOrder(o) ==
  LET loaded == Load(o)
      step   == cancel(loaded)
  IN /\ UNCHANGED users
     /\ IF ~loaded.exists
        THEN /\ last' = Call("cancelOrder", o, "", KindOf("orderNotFound"), "orderNotFound")
             /\ UNCHANGED <<products, orders, orderCache>>
        ELSE IF ~canBeCancelled(loaded)
        THEN /\ last' = Call("cancelOrder", o, "", KindOf("cannotBeCancelled"), "cannotBeCancelled")
             /\ orderCache' = CacheAfterGet(o)
             /\ UNCHANGED <<products, orders>>
        ELSE IF ~step.ok
        THEN /\ last' = Call("cancelOrder", o, "", KindOf("illegalTransition"), "illegalTransition")
             /\ orderCache' = CacheAfterGet(o)
             /\ UNCHANGED <<products, orders>>
        ELSE /\ products' = restoreStock(products, step.obj)
             /\ WithinCap(products')
             /\ orders' = [orders EXCEPT ![o] = OrderRepoUpdate(@, step.obj)]
             /\ orderCache' = clearOrderCache(CacheAfterGet(o), o)
             /\ last' = Call("cancelOrder", o, "", "ok", "")

\* the TTL of a cached entry runs out
CacheExpire(o) ==
  /\ orderCache[o].exists
  /\ orderCache' = [orderCache EXCEPT ![o] = NoOrder]
  /\ last' = Call("expire", o, "", "ok", "")
  /\ UNCHANGED <<users, products, orders>>

\* calls run one at a time, to their end, and the infrastructure never fails
Sequential == UNCHANGED <<lastRequest, fault, calls, carts, productCache, validation>>

Next ==
  \/ \E p \in Products, d \in ProductData : CreateProduct(p, d) /\ Sequential
  \/ \E r \in Requests : CreateOrder(r) /\ Sequential
  \/ \E o \in OrderIds : GetOrderById(o) /\ Sequential
  \/ \E o \in OrderIds, s \in OrderStatus : UpdateOrderStatus(o, s) /\ Sequential
  \/ \E o \in OrderIds, ps \in PaymentStatus : UpdatePaymentStatus(o, ps) /\ Sequential
  \/ \E o \in OrderIds : CancelOrder(o) /\ Sequential
  \/ \E o \in OrderIds : CacheExpire(o) /\ Sequential

Spec == Init /\ [][Next]_vars

\* ------------------------------------------------- checkout on its own
\* createOrder calls against any catalogue, each step recording its request
NextCheckout ==
  \/ \E p \in Products, d \in ProductData : CreateProduct(p, d) /\ Sequential
  \/ \E r \in Requests :
       CreateOrder(r) /\ lastRequest' = r /\ UNCHANGED <<fault, calls, carts, productCache, validation>>

SpecCheckout == Init /\ [][NextCheckout]_vars

\* --------------------------------------------- infrastructure failures
\* a call of the cache (get, setEx, del, keys) or of the Product Store inside
\* restoreStock (findById or update for the item at position `at`) throws
CacheFaults   == {"cacheGet", "cacheSet", "cacheDel", "cacheKeys"}
RestoreFaults == {"productFind", "productUpdate"}
\* orderRepository.update throws
OrderFaults   == {"orderUpdate"}
\* productRepository.findById or update throws in the reservation loop of
\* createOrder
ReserveFaults == {"reserveFind", "reserveUpdate"}

Faults ==
  {[kind |-> k, at |-> 0] : k \in CacheFaults}
  \cup {[kind |-> k, at |-> i] : k \in RestoreFaults, i \in 1..2}
  \cup {[kind |-> k, at |-> 0] : k \in OrderFaults}
  \cup {[kind |-> k, at |-> i] : k \in ReserveFaults, i \in 1..2}

\* a restoreStock that lets the failure out to its caller
restoreStockRethrowing(prods, order, f) ==
  [threw |-> f.kind \in RestoreFaults,
   prods |-> IF f.kind \in RestoreFaults
             THEN RestoreLoop(prods, SubSeq(order.items, 1, f.at - 1))
             ELSE restoreStock(prods, order)]

\* restoreStock when the store call for the item at f.at throws: the items
\* before it are restored, the loop ends, and the catch block logs the error
\* and does not rethrow it
restoreStockUnderFault(prods, order, f) ==
  [threw |-> FALSE,
   prods |-> IF f.kind \in RestoreFaults
             THEN RestoreLoop(prods, SubSeq(order.items, 1, f.at - 1))
             ELSE restoreStock(prods, order)]

\* updateOrderStatus, updatePaymentStatus and cancelOrder when failure f
\* is met: redis.get and redis.setEx throw inside getOrderById, which rethrows,
\* and so does the handler; the other failures are met after the domain
\* method went through, where clearOrderCache and clearOrdersCache swallow
\* theirs and restoreStock its own
TransitionUnderFault(op, o, arg, hasEvent, step, restores, f) ==
  LET loaded   == Load(o)
      restored == restoreStockUnderFault(products, step.obj, f)
  IN /\ UNCHANGED <<users, lastRequest, calls, carts, productCache, validation>>
     /\ fault' = f
     /\ f.kind \notin ReserveFaults
     /\ IF f.kind = "cacheGet"
        THEN /\ last' = Call(op, o, arg, KindOf("cacheFailure"), "cacheFailure")
             /\ UNCHANGED <<products, orders, orderCache>>
        ELSE IF f.kind = "cacheSet"
        THEN /\ ~orderCache[o].exists /\ orders[o].exists
             /\ last' = Call(op, o, arg, KindOf("cacheFailure"), "cacheFailure")
             /\ UNCHANGED <<products, orders, orderCache>>
        ELSE /\ loaded.exists /\ hasEvent /\ step.ok
             /\ f.kind \in RestoreFaults
                  => restores /\ f.at \in 1..Len(loaded.items)
             /\ IF restores /\ restored.threw
                THEN /\ products' = restored.prods
                     /\ orderCache' = CacheAfterGet(o)
                     /\ last' = Call(op, o, arg, KindOf("storeFailure"), "storeFailure")
                     /\ UNCHANGED orders
                ELSE IF f.kind \in OrderFaults
                THEN /\ products' = IF restores THEN restored.prods ELSE products
                     /\ WithinCap(products')
                     /\ orderCache' = CacheAfterGet(o)
                     /\ last' = Call(op, o, arg, KindOf("storeFailure"), "storeFailure")
                     /\ UNCHANGED orders
                ELSE /\ products' = IF restores THEN restored.prods ELSE products
                     /\ WithinCap(products')
                     /\ orders' = [orders EXCEPT ![o] = OrderRepoUpdate(@, step.obj)]
                     /\ orderCache' = IF f.kind = "cacheDel"
                                      THEN CacheAfterGet(o)
                                      ELSE clearOrderCache(CacheAfterGet(o), o)
                     /\ last' = Call(op, o, arg, "ok", "")

UpdateOrderStatusUnderFault(o, status, f) ==
  TransitionUnderFault("updateOrderStatus", o, status, HasStatusEvent(status),
                       StatusEvent(Load(o), status), status = "CANCELLED", f)

UpdatePaymentStatusUnderFault(o, paymentStatus, f) ==
  TransitionUnderFault("updatePaymentStatus", o, paymentStatus,
                       HasPaymentEvent(paymentStatus),
                       PaymentEvent(Load(o), paymentStatus),
                       paymentStatus = "REFUNDED", f)

CancelOrderUnderFault(o, f) ==
  TransitionUnderFault("cancelOrder", o, "", canBeCancelled(Load(o)),
                       cancel(Load(o)), TRUE, f)

\* getOrderById when redis.get throws, or redis.setEx after a miss
GetOrderByIdUnderFault(o, f) ==
  /\ \/ f.kind = "cacheGet"
     \/ f.kind = "cacheSet" /\ ~orderCache[o].exists /\ orders[o].exists
  /\ last' = Call("getOrderById", o, "", KindOf("cacheFailure"), "cacheFailure")
  /\ fault' = f
  /\ UNCHANGED <<users, products, orders, orderCache, lastRequest, calls, carts, productCache, validation>>

\* the order createOrder builds from the items it prepared
OrderOf(u, items) ==
  LET subtotal == SumSubtotals(items)
  IN [exists |-> TRUE, userId |-> u, items |-> items,
      subtotal |-> subtotal, taxes |-> TaxOf(subtotal),
      shipping |-> ShippingOf(subtotal),
      total |-> subtotal + TaxOf(subtotal) + ShippingOf(subtotal),
      status |-> "PENDING", paymentStatus |-> "PENDING",
      shippedAt |-> FALSE, deliveredAt |-> FALSE]

\* a reservation loop that undoes its decrements when a store call throws
ReserveStockRolledBack(prods, items, f) == [ok |-> TRUE, prods |-> prods]

\* the reservation loop of createOrder when the store call for the item at
\* f.at throws: the items before it were reduced and written, the loop ends
ReserveStockUnderFault(prods, items, f) ==
  ReserveStock(prods, SubSeq(items, 1, f.at - 1))

\* createOrder when redis.keys throws in its closing clearOrdersCache, which
\* swallows it, and when productRepository.findById or update throws in the
\* reservation loop: the order was created before the loop, nothing undoes
\* it, and the catch block of createOrder rethrows
CreateOrderUnderFault(r, f) ==
  LET user     == users[r.userId]
      items    == OrderItemsOf(products, r.cartItems)
      order    == OrderOf(r.userId, items)
      reserved == ReserveStockUnderFault(products, items, f)
  IN /\ fault' = f
     /\ UNCHANGED <<lastRequest, calls, carts, productCache, validation>>
     /\ IF f.kind \in ReserveFaults
        THEN /\ user.exists /\ user.isActive /\ Len(r.cartItems) > 0
             /\ FirstItemError(products, r.cartItems) = "ok"
             /\ OrderValidate(order, r.hasStreet)
             /\ f.at \in 1..Len(items)
             /\ reserved.ok
             /\ \E id \in OrderIds :
                  /\ ~orders[id].exists
                  /\ orders' = [orders EXCEPT ![id] = order]
                  /\ last' = Call("createOrder", id, r.userId,
                                  KindOf("storeFailure"), "storeFailure")
             /\ products' = reserved.prods
             /\ UNCHANGED <<users, orderCache>>
        ELSE /\ f.kind = "cacheKeys"
             /\ CreateOrder(r)
             /\ last'.result = "ok"

\* the call meets no failure
NoFailure == fault' = NoFault /\ UNCHANGED <<lastRequest, calls, carts, productCache, validation>>

\* the catalogue once every product was created with stock MaxStock
InitFault ==
  /\ users = [u \in Users |->
                [exists |-> u # "u3", isActive |-> u = "u1"]]
  /\ products = [p \in Products |->
                   [exists |-> TRUE, name |-> NameOf(p), stock |-> MaxStock,
                    isActive |-> TRUE, price |-> PriceOf(p)]]
  /\ orders = [o \in OrderIds |-> NoOrder]
  /\ orderCache = [o \in OrderIds |-> NoOrder]
  /\ last = Call("init", "", "", "ok", "")
  /\ lastRequest = NoRequest
  /\ fault = NoFault
  /\ calls = NoCalls
  /\ carts = NoCarts
  /\ productCache = NoProductCache
  /\ validation = NoValidation

\* the requests explored with failures: one line item, and two line items of
\* different products, one unit each
FaultRequests ==
  {[userId |-> "u1", cartItems |-> c, hasStreet |-> TRUE] :
     c \in {<<[productId |-> "p1", quantity |-> 1]>>,
            <<[productId |-> "p1", quantity |-> 1],
              [productId |-> "p2", quantity |-> 1]>>}}

NextFault ==
  \/ \E r \in FaultRequests : CreateOrder(r) /\ NoFailure
  \/ \E r \in FaultRequests, f \in Faults : CreateOrderUnderFault(r, f)
  \/ \E o \in OrderIds : GetOrderById(o) /\ NoFailure
  \/ \E o \in OrderIds, f \in Faults : GetOrderByIdUnderFault(o, f)
  \/ \E o \in OrderIds, s \in OrderStatus : UpdateOrderStatus(o, s) /\ NoFailure
  \/ \E o \in OrderIds, s \in OrderStatus, f \in Faults :
       UpdateOrderStatusUnderFault(o, s, f)
  \/ \E o \in OrderIds, ps \in PaymentStatus : UpdatePaymentStatus(o, ps) /\ NoFailure
  \/ \E o \in OrderIds, ps \in PaymentStatus, f \in Faults :
       UpdatePaymentStatusUnderFault(o, ps, f)
  \/ \E o \in OrderIds : CancelOrder(o) /\ NoFailure
  \/ \E o \in OrderIds, f \in Faults : CancelOrderUnderFault(o, f)
  \/ \E o \in OrderIds : CacheExpire(o) /\ NoFailure

SpecFault == InitFault /\ [][NextFault]_vars

\* --------------------------------------------- products edited after sale
\* One order of one unit of the first product is placed and taken through
\* its transitions while that product is edited through updateProduct.
SnapshotRequests ==
  {[userId |-> "u1",
    cartItems |-> <<[productId |-> "p1", quantity |-> 1]>>,
    hasStreet |-> TRUE]}

\* the edits explored, each a Partial<Product>: a new name, a new price, the
\* stock set to zero, the product deactivated
ProductEdits ==
  {[name |-> "renamed"], [price |-> PriceOf("p1") + 10000], [stock |-> 0],
   [isActive |-> FALSE]}

\* ProductService.updateProduct; the edits carry no sku, so the uniqueness
\* check is passed over; the product caches it clears are not kept here
UpdateProduct(p, productData) ==
  /\ UNCHANGED <<users, orders, orderCache>>
  /\ IF ~products[p].exists
     THEN /\ last' = Call("updateProduct", "", p, "error", "productNotFound")
          /\ UNCHANGED products
     ELSE /\ products' = [products EXCEPT
                            ![p] = ProductRepoUpdatePartial(@, productData)]
          /\ last' = Call("updateProduct", "", p, "ok", "")

NextSnapshot ==
  \/ \E r \in SnapshotRequests : CreateOrder(r) /\ Sequential
  \/ \E d \in ProductEdits : UpdateProduct("p1", d) /\ Sequential
  \/ \E o \in OrderIds, s \in OrderStatus : UpdateOrderStatus(o, s) /\ Sequential
  \/ \E o \in OrderIds, ps \in PaymentStatus : UpdatePaymentStatus(o, ps) /\ Sequential
  \/ \E o \in OrderIds : CancelOrder(o) /\ Sequential

SpecSnapshot == InitFault /\ [][NextSnapshot]_vars

\* ------------------------------------------------- overlapping checkouts
\* Two createOrder calls run at once. A call gives way to the other at each of
\* its awaited store calls, so a step is one store call together with the
\* code that runs until the next one. The closing clearOrdersCache touches no
\* entry kept here and is part of the last step.
CallIds      == {1, 2}
RaceOrderIds == {"o1", "o2"}

\* a call that has not begun; `checked` and `read` keep the stock the call saw
\* at each item's check and at each item's re-read before the write; `order`
\* is the order object a call on an existing order holds in memory
IdleCall ==
  [pc |-> "idle", op |-> "", arg |-> "", request |-> NoRequest, i |-> 0,
   items |-> <<>>, id |-> "", order |-> NoOrder,
   product |-> NoProduct, checked |-> <<>>, read |-> <<>>,
   result |-> "", msg |-> ""]

\* one line item of the first product, or one unit of each product
RaceRequests ==
  {[userId |-> "u1",
    cartItems |-> <<[productId |-> "p1", quantity |-> q]>>,
    hasStreet |-> TRUE] : q \in 1..MaxQty}
  \cup {[userId |-> "u1",
         cartItems |-> <<[productId |-> "p1", quantity |-> 1],
                         [productId |-> "p2", quantity |-> 1]>>,
         hasStreet |-> TRUE]}

\* the id the Order Store gives the next order
FreshId(ords) == IF ~ords["o1"].exists THEN "o1" ELSE "o2"

\* the call ends: it throws msg, or returns the order when msg is ""
Finish(c, msg) ==
  /\ calls' = [calls EXCEPT ![c].pc = "done", ![c].result = KindOf(msg),
                            ![c].msg = msg]
  /\ last' = Call("createOrder", calls[c].id, calls[c].request.userId,
                  KindOf(msg), msg)

Frame == UNCHANGED <<users, orderCache, lastRequest, fault, carts, productCache, validation>>

\* userRepository.findById and the checks of the user and of the cart
RaceBegin(c, r) ==
  LET user == users[r.userId]
      err  == IF ~user.exists THEN "userNotFound"
              ELSE IF ~user.isActive THEN "userInactive"
              ELSE IF Len(r.cartItems) = 0 THEN "noItems"
              ELSE ""
  IN /\ calls[c].pc = "idle"
     /\ calls' = [calls EXCEPT ![c] =
                    IF err # ""
                    THEN [IdleCall EXCEPT !.pc = "done", !.op = "createOrder",
                                          !.request = r,
                                          !.result = KindOf(err), !.msg = err]
                    ELSE [IdleCall EXCEPT !.pc = "check", !.op = "createOrder",
                                          !.request = r, !.i = 1]]
     /\ UNCHANGED <<products, orders, last>>
     /\ Frame

\* productRepository.findById for the line item at i and the checks of that
\* item; after the last item the order is built and validated
RaceCheckItem(c) ==
  LET call == calls[c]
      item == call.request.cartItems[call.i]
      e    == FirstItemError(products, <<item>>)
      its  == Append(call.items, OrderItemsOf(products, <<item>>)[1])
      seen == Append(call.checked, products[item.productId].stock)
  IN /\ call.pc = "check"
     /\ UNCHANGED <<products, orders>>
     /\ Frame
     /\ IF e # "ok" THEN Finish(c, e)
        ELSE IF call.i < Len(call.request.cartItems)
        THEN /\ calls' = [calls EXCEPT ![c].items = its, ![c].checked = seen,
                                       ![c].i = call.i + 1]
             /\ UNCHANGED last
        ELSE IF ~OrderValidate(OrderOf(call.request.userId, its),
                               call.request.hasStreet)
        THEN Finish(c, "orderValidationFailed")
        ELSE /\ calls' = [calls EXCEPT ![c].items = its, ![c].checked = seen,
                                       ![c].pc = "create"]
             /\ UNCHANGED last

\* orderRepository.create
RaceCreate(c) ==
  LET call == calls[c]
      id   == FreshId(orders)
  IN /\ call.pc = "create"
     /\ orders' = [orders EXCEPT ![id] = OrderOf(call.request.userId, call.items)]
     /\ calls' = [calls EXCEPT ![c].id = id, ![c].pc = "read", ![c].i = 1]
     /\ UNCHANGED <<products, last>>
     /\ Frame

\* the reservation loop, first half: productRepository.findById for the
\* order item at i, and reduceStock on the object read
RaceReserveRead(c) ==
  LET call == calls[c]
      it   == call.items[call.i]
      p    == products[it.productId]
      r    == reduceStock(p, it.quantity)
  IN /\ call.pc = "read"
     /\ UNCHANGED <<products, orders>>
     /\ Frame
     /\ IF ~p.exists
        THEN IF call.i < Len(call.items)
             THEN calls' = [calls EXCEPT ![c].i = call.i + 1] /\ UNCHANGED last
             ELSE Finish(c, "")
        ELSE IF ~r.ok THEN Finish(c, "reduceStockFailed")
        ELSE /\ calls' = [calls EXCEPT ![c].product = r.obj,
                                       ![c].read = Append(@, p.stock),
                                       ![c].pc = "write"]
             /\ UNCHANGED last

\* the reservation loop, second half: productRepository.update writes the
\* object reduced in memory; after the last item the call returns the order
RaceReserveWrite(c) ==
  LET call == calls[c]
      it   == call.items[call.i]
  IN /\ call.pc = "write"
     /\ products' = [products EXCEPT
                       ![it.productId] = ProductRepoUpdate(@, call.product)]
     /\ UNCHANGED orders
     /\ Frame
     /\ IF call.i < Len(call.items)
        THEN /\ calls' = [calls EXCEPT ![c].i = call.i + 1, ![c].pc = "read"]
             /\ UNCHANGED last
        ELSE Finish(c, "")

\* both products are there, active, with any stock up to MaxStock
InitRace ==
  /\ users = [u \in Users |->
                [exists |-> u # "u3", isActive |-> u = "u1"]]
  /\ \E st \in [Products -> 0..MaxStock] :
       products = [p \in Products |->
                     [exists |-> TRUE, name |-> NameOf(p), stock |-> st[p],
                      isActive |-> TRUE, price |-> PriceOf(p)]]
  /\ orders = [o \in RaceOrderIds |-> NoOrder]
  /\ orderCache = [o \in RaceOrderIds |-> NoOrder]
  /\ last = Call("init", "", "", "ok", "")
  /\ lastRequest = NoRequest
  /\ fault = NoFault
  /\ calls = [c \in CallIds |-> IdleCall]
  /\ carts = NoCarts
  /\ productCache = NoProductCache
  /\ validation = NoValidation

NextRace ==
  \/ \E c \in CallIds, r \in RaceRequests : RaceBegin(c, r)
  \/ \E c \in CallIds : RaceCheckItem(c)
  \/ \E c \in CallIds : RaceCreate(c)
  \/ \E c \in CallIds : RaceReserveRead(c)
  \/ \E c \in CallIds : RaceReserveWrite(c)

SpecRace == InitRace /\ [][NextRace]_vars

\* ------------------------------------------ overlapping calls on an order
\* An order of one unit of the first product was placed, paid and shipped.
\* Calls on that order (cancelOrder, updateOrderStatus, updatePaymentStatus)
\* and createOrder calls for what is left of the product run at once. A call
\* gives way at its awaited store calls: getOrderById, then findById and
\* update for each item restored, then orderRepository.update, with the cache
\* invalidation as part of the last step.
PlacedOrderId == "o0"
OrderRaceIds  == {PlacedOrderId} \cup RaceOrderIds
OrderCallIds  == {1, 2, 3}

\* the catalogue with both products created at stock MaxStock
Catalogue ==
  [p \in Products |->
     [exists |-> TRUE, name |-> NameOf(p), stock |-> MaxStock,
      isActive |-> TRUE, price |-> PriceOf(p)]]

PlacedOrder ==
  [OrderOf("u1", OrderItemsOf(Catalogue, <<[productId |-> "p1", quantity |-> 1]>>))
     EXCEPT !.status = "SHIPPED", !.paymentStatus = "PAID", !.shippedAt = TRUE]

\* a createOrder request for all that is left of the first product
OrderRaceRequests ==
  {[userId |-> "u1",
    cartItems |-> <<[productId |-> "p1", quantity |-> MaxStock - 1]>>,
    hasStreet |-> TRUE]}

\* the calls on the placed order
TransitionCalls ==
  {[op |-> "cancelOrder", arg |-> ""],
   [op |-> "updateOrderStatus", arg |-> "DELIVERED"],
   [op |-> "updateOrderStatus", arg |-> "CANCELLED"],
   [op |-> "updatePaymentStatus", arg |-> "REFUNDED"]}

\* the domain method a call applies to the order it loaded
EventOf(t, order) ==
  CASE t.op = "cancelOrder" ->
         IF canBeCancelled(order) THEN cancel(order) ELSE Thrown(order)
    [] t.op = "updateOrderStatus" ->
         IF HasStatusEvent(t.arg) THEN StatusEvent(order, t.arg) ELSE Thrown(order)
    [] t.op = "updatePaymentStatus" ->
         IF HasPaymentEvent(t.arg) THEN PaymentEvent(order, t.arg) ELSE Thrown(order)

\* what the call throws when the domain method is not applied
RejectionOf(t) ==
  CASE t.op = "cancelOrder" -> "cannotBeCancelled"
    [] t.op = "updateOrderStatus" ->
         IF HasStatusEvent(t.arg) THEN "illegalTransition" ELSE "invalidStatus"
    [] t.op = "updatePaymentStatus" ->
         IF HasPaymentEvent(t.arg) THEN "illegalTransition" ELSE "invalidPaymentStatus"

\* the calls that go through restoreStock
Restores(t) ==
  \/ t.op = "cancelOrder"
  \/ t.op = "updateOrderStatus" /\ t.arg = "CANCELLED"
  \/ t.op = "updatePaymentStatus" /\ t.arg = "REFUNDED"

\* a call on an order ends: it throws msg, or returns the order when msg is ""
FinishTransition(c, t, o, msg) ==
  /\ calls' = [calls EXCEPT ![c] =
                 [@ EXCEPT !.pc = "done", !.op = t.op, !.arg = t.arg, !.id = o,
                           !.result = KindOf(msg), !.msg = msg]]
  /\ last' = Call(t.op, o, t.arg, KindOf(msg), msg)

OrderFrame == UNCHANGED <<users, lastRequest, fault, carts, productCache, validation>>

\* getOrderById and the domain method on the object it returned
OrderRaceLoad(c, t, o) ==
  LET loaded == Load(o)
      step   == EventOf(t, loaded)
  IN /\ calls[c].pc = "idle"
     /\ UNCHANGED <<products, orders>>
     /\ OrderFrame
     /\ orderCache' = CacheAfterGet(o)
     /\ IF ~loaded.exists THEN FinishTransition(c, t, o, "orderNotFound")
        ELSE IF ~step.ok THEN FinishTransition(c, t, o, RejectionOf(t))
        ELSE /\ calls' = [calls EXCEPT ![c] =
                            [IdleCall EXCEPT
                               !.op = t.op, !.arg = t.arg, !.id = o,
                               !.order = step.obj, !.i = 1,
                               !.pc = IF Restores(t) /\ Len(step.obj.items) > 0
                                      THEN "restoreRead" ELSE "update"]]
             /\ UNCHANGED last

\* restoreStock, first half: productRepository.findById for the item at i and
\* increaseStock on the object read; a throw ends the loop and is swallowed
OrderRaceRestoreRead(c) ==
  LET call == calls[c]
      it   == call.order.items[call.i]
      p    == products[it.productId]
      r    == increaseStock(p, it.quantity)
  IN /\ call.pc = "restoreRead"
     /\ UNCHANGED <<products, orders, orderCache, last>>
     /\ OrderFrame
     /\ calls' = [calls EXCEPT ![c] =
                    IF ~p.exists
                    THEN IF call.i < Len(call.order.items)
                         THEN [@ EXCEPT !.i = call.i + 1]
                         ELSE [@ EXCEPT !.pc = "update"]
                    ELSE IF ~r.ok THEN [@ EXCEPT !.pc = "update"]
                    ELSE [@ EXCEPT !.product = r.obj,
                                   !.read = Append(@, p.stock),
                                   !.pc = "restoreWrite"]]

\* restoreStock, second half: productRepository.update writes the object
\* increased in memory
OrderRaceRestoreWrite(c) ==
  LET call == calls[c]
      it   == call.order.items[call.i]
  IN /\ call.pc = "restoreWrite"
     /\ products' = [products EXCEPT
                       ![it.productId] = ProductRepoUpdate(@, call.product)]
     /\ UNCHANGED <<orders, orderCache, last>>
     /\ OrderFrame
     /\ calls' = [calls EXCEPT ![c] =
                    IF call.i < Len(call.order.items)
                    THEN [@ EXCEPT !.i = call.i + 1, !.pc = "restoreRead"]
                    ELSE [@ EXCEPT !.pc = "update"]]

\* orderRepository.update with the object in memory, clearOrderCache, and the
\* return of the updated order
OrderRaceUpdate(c) ==
  LET call == calls[c]
  IN /\ call.pc = "update"
     /\ orders' = [orders EXCEPT ![call.id] = OrderRepoUpdate(@, call.order)]
     /\ orderCache' = clearOrderCache(orderCache, call.id)
     /\ UNCHANGED products
     /\ OrderFrame
     /\ FinishTransition(c, [op |-> call.op, arg |-> call.arg], call.id, "")

\* the order was placed: one unit of the first product is gone
InitOrderRace ==
  /\ users = [u \in Users |->
                [exists |-> u # "u3", isActive |-> u = "u1"]]
  /\ products = [Catalogue EXCEPT !["p1"].stock = MaxStock - 1]
  /\ orders = [o \in OrderRaceIds |->
                 IF o = PlacedOrderId THEN PlacedOrder ELSE NoOrder]
  /\ orderCache = [o \in OrderRaceIds |-> NoOrder]
  /\ last = Call("init", "", "", "ok", "")
  /\ lastRequest = NoRequest
  /\ fault = NoFault
  /\ calls = [c \in OrderCallIds |-> IdleCall]
  /\ carts = NoCarts
  /\ productCache = NoProductCache
  /\ validation = NoValidation

NextOrderRace ==
  \/ \E c \in OrderCallIds, r \in OrderRaceRequests : RaceBegin(c, r)
  \/ \E c \in OrderCallIds : RaceCheckItem(c)
  \/ \E c \in OrderCallIds : RaceCreate(c)
  \/ \E c \in OrderCallIds : RaceReserveRead(c)
  \/ \E c \in OrderCallIds : RaceReserveWrite(c)
  \/ \E c \in OrderCallIds, t \in TransitionCalls : OrderRaceLoad(c, t, PlacedOrderId)
  \/ \E c \in OrderCallIds : OrderRaceRestoreRead(c)
  \/ \E c \in OrderCallIds : OrderRaceRestoreWrite(c)
  \/ \E c \in OrderCallIds : OrderRaceUpdate(c)

SpecOrderRace == InitOrderRace /\ [][NextOrderRace]_vars

\* --------------------------------------------------------- product cache
\* ProductService keeps product:<id> entries; orders are placed, cancelled
\* and refunded through OrderService, which writes the Product Store only.
\* getProductById: the cached entry when there is one, else the stored row
ProductLoad(p) == IF productCache[p].exists THEN productCache[p] ELSE products[p]

\* ... and a miss on an existing product populates the cache
ProductCacheAfterGet(p) ==
  IF ~productCache[p].exists /\ products[p].exists
  THEN [productCache EXCEPT ![p] = products[p]]
  ELSE productCache

ProductFrame == UNCHANGED <<users, orders, orderCache, lastRequest, fault, calls,
                            carts, validation>>

\* ProductService.getProductById
GetProductById(p) ==
  /\ productCache' = ProductCacheAfterGet(p)
  /\ last' = Call("getProductById", "", p, "ok", "")
  /\ UNCHANGED products
  /\ ProductFrame

\* activateProduct and deactivateProduct: the product comes from
\* getProductById, the flag is set on that object, and the whole object goes
\* to productRepository.update; no cache entry is cleared
SetActive(op, p, step) ==
  /\ productCache' = ProductCacheAfterGet(p)
  /\ ProductFrame
  /\ IF ~ProductLoad(p).exists
     THEN /\ last' = Call(op, "", p, "error", "productNotFound")
          /\ UNCHANGED products
     ELSE /\ products' = [products EXCEPT ![p] = ProductRepoUpdate(@, step.obj)]
          /\ last' = Call(op, "", p, "ok", "")

\* ProductService.activateProduct
ActivateProduct(p) == SetActive("activateProduct", p, activate(ProductLoad(p)))

\* ProductService.deactivateProduct
DeactivateProduct(p) == SetActive("deactivateProduct", p, deactivate(ProductLoad(p)))

\* the TTL of a cached product runs out
ProductCacheExpire(p) ==
  /\ productCache[p].exists
  /\ productCache' = [productCache EXCEPT ![p] = NoProduct]
  /\ last' = Call("expire", "", p, "ok", "")
  /\ UNCHANGED products
  /\ ProductFrame

\* the catalogue with both products created and no product cached
InitProduct ==
  /\ users = [u \in Users |->
                [exists |-> u # "u3", isActive |-> u = "u1"]]
  /\ products = Catalogue
  /\ orders = [o \in OrderIds |-> NoOrder]
  /\ orderCache = [o \in OrderIds |-> NoOrder]
  /\ last = Call("init", "", "", "ok", "")
  /\ lastRequest = NoRequest
  /\ fault = NoFault
  /\ calls = NoCalls
  /\ carts = NoCarts
  /\ productCache = [p \in Products |-> NoProduct]
  /\ validation = NoValidation

\* one order of one unit of the first product is placed, paid, cancelled or
\* refunded while that product is read, activated and deactivated
NextProduct ==
  \/ GetProductById("p1")
  \/ ActivateProduct("p1")
  \/ DeactivateProduct("p1")
  \/ ProductCacheExpire("p1")
  \/ \E r \in SnapshotRequests : CreateOrder(r) /\ Sequential
  \/ \E o \in OrderIds : CancelOrder(o) /\ Sequential
  \/ \E o \in OrderIds, ps \in {"PAID", "REFUNDED"} :
       UpdatePaymentStatus(o, ps) /\ Sequential

SpecProduct == InitProduct /\ [][NextProduct]_vars

\* ------------------------------------------------------------------ cart
\* Cart (domain): total and itemCount are recomputed from the items
RECURSIVE SumQuantities(_)
SumQuantities(items) ==
  IF items = <<>> THEN 0
  ELSE items[1].quantity + SumQuantities(Tail(items))

recalculateTotal(cart) ==
  [cart EXCEPT !.total = SumSubtotals(cart.items),
               !.itemCount = SumQuantities(cart.items)]

\* Cart.addItem: an item of the product already in the cart gets the quantity
\* added and keeps its price; otherwise a new item is pushed
addItem(cart, productId, quantity, price) ==
  LET found == {i \in 1..Len(cart.items) : cart.items[i].productId = productId}
      items ==
        IF found # {}
        THEN LET i == CHOOSE j \in found : \A k \in found : j <= k
             IN [cart.items EXCEPT
                   ![i] = [@ EXCEPT !.quantity = @ + quantity,
                                    !.subtotal = (cart.items[i].quantity + quantity)
                                                   * cart.items[i].price]]
        ELSE Append(cart.items,
                    [productId |-> productId, quantity |-> quantity,
                     price |-> price, subtotal |-> quantity * price])
  IN recalculateTotal([cart EXCEPT !.items = items])

\* Cart.removeItem
removeItem(cart, productId) ==
  recalculateTotal(
    [cart EXCEPT !.items = SelectSeq(@, LAMBDA it : it.productId # productId)])

\* Cart.updateItemQuantity: a quantity of zero or less removes the item;
\* otherwise the first item of the product gets the quantity
updateItemQuantity(cart, productId, quantity) ==
  LET found == {i \in 1..Len(cart.items) : cart.items[i].productId = productId}
  IN IF quantity <= 0 THEN removeItem(cart, productId)
     ELSE IF found = {} THEN cart
     ELSE LET i == CHOOSE j \in found : \A k \in found : j <= k
          IN recalculateTotal(
               [cart EXCEPT !.items[i] =
                  [@ EXCEPT !.quantity = quantity,
                            !.subtotal = quantity * cart.items[i].price]])

\* Cart.clear
clear(cart) == [cart EXCEPT !.items = <<>>, !.total = 0, !.itemCount = 0]

\* CartService.getCartByUserId for an existing user: the cached cart, or a
\* new empty cart that is cached
CartsAfterGet(u) ==
  IF carts[u].exists THEN carts
  ELSE [carts EXCEPT ![u] = [exists |-> TRUE, items |-> <<>>, total |-> 0,
                             itemCount |-> 0]]

\* quantity of the product in a cart
QuantityInCart(cart, productId) ==
  LET found == {i \in 1..Len(cart.items) : cart.items[i].productId = productId}
  IN IF found = {} THEN 0
     ELSE cart.items[CHOOSE j \in found : \A k \in found : j <= k].quantity

\* CartService.addItemToCart
AddItemToCart(u, p, quantity) ==
  LET got     == CartsAfterGet(u)
      product == products[p]
      err == IF quantity <= 0 THEN "invalidQuantity"
             ELSE IF ~users[u].exists THEN "userNotFound"
             ELSE IF ~product.exists THEN "productNotFound"
             ELSE IF ~product.isActive THEN "productNotAvailable"
             ELSE IF ~canFulfillQuantity(product,
                                         QuantityInCart(got[u], p) + quantity)
                  THEN "insufficientStock"
             ELSE ""
  IN /\ last' = Call("addItemToCart", "", u, KindOf(err), err)
     /\ carts' = IF err \in {"invalidQuantity", "userNotFound"} THEN carts
                 ELSE IF err # "" THEN got
                 ELSE [got EXCEPT ![u] = addItem(@, p, quantity, product.price)]
     /\ UNCHANGED <<users, products, orders, orderCache, lastRequest, fault, calls,
                 productCache, validation>>

\* CartService.clearCart
ClearCart(u) ==
  /\ IF ~users[u].exists
     THEN /\ last' = Call("clearCart", "", u, KindOf("userNotFound"), "userNotFound")
          /\ UNCHANGED carts
     ELSE /\ last' = Call("clearCart", "", u, "ok", "")
          /\ carts' = [carts EXCEPT ![u] = clear(CartsAfterGet(u)[u])]
  /\ UNCHANGED <<users, products, orders, orderCache, lastRequest, fault, calls,
                 productCache, validation>>

CartFrame == UNCHANGED <<users, products, orders, orderCache, lastRequest, fault,
                         calls, productCache, validation>>

HasItem(cart, productId) ==
  \E i \in 1..Len(cart.items) : cart.items[i].productId = productId

\* CartService.removeItemFromCart
RemoveItemFromCart(u, p) ==
  LET got == CartsAfterGet(u)
      err == IF ~users[u].exists THEN "userNotFound"
             ELSE IF ~HasItem(got[u], p) THEN "itemNotFound"
             ELSE ""
  IN /\ last' = Call("removeItemFromCart", "", u, KindOf(err), err)
     /\ carts' = IF err = "userNotFound" THEN carts
                 ELSE IF err # "" THEN got
                 ELSE [got EXCEPT ![u] = removeItem(@, p)]
     /\ CartFrame

\* CartService.updateCartItemQuantity; a quantity of zero goes to
\* removeItemFromCart
UpdateCartItemQuantity(u, p, quantity) ==
  LET got     == CartsAfterGet(u)
      product == products[p]
      err == IF quantity < 0 THEN "negativeQuantity"
             ELSE IF ~users[u].exists THEN "userNotFound"
             ELSE IF ~HasItem(got[u], p) THEN "itemNotFound"
             ELSE IF quantity = 0 THEN ""
             ELSE IF ~product.exists THEN "productNotFound"
             ELSE IF ~canFulfillQuantity(product, quantity) THEN "insufficientStock"
             ELSE ""
  IN /\ last' = Call("updateCartItemQuantity", "", u, KindOf(err), err)
     /\ carts' = IF err \in {"negativeQuantity", "userNotFound"} THEN carts
                 ELSE IF err # "" THEN got
                 ELSE IF quantity = 0 THEN [got EXCEPT ![u] = removeItem(@, p)]
                 ELSE [got EXCEPT ![u] = updateItemQuantity(@, p, quantity)]
     /\ CartFrame

\* the loop of mergeGuestCart: a guest item whose product is missing or
\* inactive is skipped, any other is added with the price of the product
RECURSIVE MergeItems(_, _)
MergeItems(cart, guestCartItems) ==
  IF guestCartItems = <<>> THEN cart
  ELSE LET g == guestCartItems[1]
           product == products[g.productId]
       IN IF ~product.exists \/ ~product.isActive
          THEN MergeItems(cart, Tail(guestCartItems))
          ELSE MergeItems(addItem(cart, g.productId, g.quantity, product.price),
                          Tail(guestCartItems))

\* the guest carts explored: one or two items of any quantity from -1 up
GuestItems == [productId : Products, quantity : -1..MaxQty]
GuestCarts == {<<a>> : a \in GuestItems}
              \cup {<<a, b>> : a \in GuestItems, b \in GuestItems}

\* quantities stay within what is explored
WithinCartCap(cart) ==
  \A i \in 1..Len(cart.items) :
    cart.items[i].quantity \in (0 - MaxStock)..MaxStock

\* CartService.mergeGuestCart
MergeGuestCart(u, guestCartItems) ==
  /\ IF ~users[u].exists
     THEN /\ last' = Call("mergeGuestCart", "", u, KindOf("userNotFound"),
                          "userNotFound")
          /\ UNCHANGED carts
     ELSE /\ last' = Call("mergeGuestCart", "", u, "ok", "")
          /\ carts' = [carts EXCEPT
                         ![u] = MergeItems(CartsAfterGet(u)[u], guestCartItems)]
          /\ WithinCartCap(carts'[u])
  /\ CartFrame

\* carts are filled and cleared and orders are placed, from the catalogue
\* with both products created
InitCart ==
  /\ users = [u \in Users |->
                [exists |-> u # "u3", isActive |-> u = "u1"]]
  /\ products = Catalogue
  /\ orders = [o \in OrderIds |-> NoOrder]
  /\ orderCache = [o \in OrderIds |-> NoOrder]
  /\ last = Call("init", "", "", "ok", "")
  /\ lastRequest = NoRequest
  /\ fault = NoFault
  /\ calls = NoCalls
  /\ carts = [u \in Users |-> NoCart]
  /\ productCache = NoProductCache
  /\ validation = NoValidation

CartUsers == {"u1", "u3"}

NextCart ==
  \/ \E u \in CartUsers, p \in Products, q \in 0..MaxQty : AddItemToCart(u, p, q)
  \/ \E u \in CartUsers, p \in Products, q \in -1..MaxQty :
       UpdateCartItemQuantity(u, p, q)
  \/ \E u \in CartUsers, p \in Products : RemoveItemFromCart(u, p)
  \/ \E u \in CartUsers : ClearCart(u)
  \/ \E u \in CartUsers, g \in GuestCarts : MergeGuestCart(u, g)
  \/ \E r \in FaultRequests : CreateOrder(r) /\ Sequential

SpecCart == InitCart /\ [][NextCart]_vars

\* ---------------------------------------------------- cart before checkout
\* A cart is filled, the catalogue is edited and products are deleted, and the
\* cart is validated for checkout. Prices are IEEE-754 doubles in the store
\* (price Float) and in the cached cart; the model keeps them in thousandths
\* and carries the rounding of the one comparison that depends on it.

\* one cent, the tolerance 0.01
Cent == 10

\* pairs of explored prices a cent apart whose difference as doubles lies
\* above 0.01: 25.05 - 25.04 = 0.010000000000001563, while
\* 50.01 - 50.00 = 0.00999999999999801 lies below it
RoundedAboveCent == {<<25050, 25040>>, <<25040, 25050>>}

\* Math.abs(item.price - product.price) > 0.01
PriceHasChanged(cartPrice, livePrice) ==
  LET d == IF cartPrice >= livePrice THEN cartPrice - livePrice
           ELSE livePrice - cartPrice
  IN IF d = Cent THEN <<cartPrice, livePrice>> \in RoundedAboveCent
     ELSE d > Cent

\* the errors validateCartForCheckout pushes for one cart item
ItemErrors(prods, item) ==
  LET product == prods[item.productId]
      Error(kind) == [productId |-> item.productId, kind |-> kind]
  IN IF ~product.exists THEN <<Error("noLongerExists")>>
     ELSE IF ~product.isActive THEN <<Error("noLongerAvailable")>>
     ELSE (IF ~canFulfillQuantity(product, item.quantity)
           THEN <<Error("insufficientStock")>> ELSE <<>>)
          \o (IF PriceHasChanged(item.price, product.price)
              THEN <<Error("priceHasChanged")>> ELSE <<>>)

\* the loop of validateCartForCheckout over the cart items
RECURSIVE CartErrors(_, _)
CartErrors(prods, items) ==
  IF items = <<>> THEN <<>>
  ELSE ItemErrors(prods, Head(items)) \o CartErrors(prods, Tail(items))

\* CartService.validateCartForCheckout
ValidateCartForCheckout(u) ==
  /\ UNCHANGED <<users, products, orders, orderCache, lastRequest, fault, calls,
                 productCache>>
  /\ IF ~users[u].exists
     THEN /\ last' = Call("validateCartForCheckout", "", u,
                          KindOf("userNotFound"), "userNotFound")
          /\ UNCHANGED <<carts, validation>>
     ELSE LET got    == CartsAfterGet(u)
              errors == IF got[u].items = <<>>
                        THEN <<[productId |-> "", kind |-> "cartIsEmpty"]>>
                        ELSE CartErrors(products, got[u].items)
          IN /\ carts' = got
             /\ validation' = [isValid |-> got[u].items # <<>> /\ errors = <<>>,
                               errors |-> errors]
             /\ last' = Call("validateCartForCheckout", "", u, "ok", "")

\* ProductService.deleteProduct
DeleteProduct(p) ==
  /\ UNCHANGED <<users, orders, orderCache>>
  /\ IF ~products[p].exists
     THEN /\ last' = Call("deleteProduct", "", p, "error", "productNotFound")
          /\ UNCHANGED products
     ELSE /\ products' = [products EXCEPT ![p] = NoProduct]
          /\ last' = Call("deleteProduct", "", p, "ok", "")

\* edits of the catalogue between filling the cart and validating it: a price
\* a cent lower or higher, a price far off, no stock left, deactivation
CatalogueEdits ==
  [p \in Products |->
     IF p = "p1"
     THEN {[price |-> PriceOf(p) + Cent], [price |-> PriceOf(p) + 10000],
           [stock |-> 0], [isActive |-> FALSE]}
     ELSE {[price |-> PriceOf(p) - Cent]}]

NextValidate ==
  \/ \E u \in CartUsers, p \in Products : AddItemToCart(u, p, 1)
  \/ \E p \in Products : \E d \in CatalogueEdits[p] :
       UpdateProduct(p, d) /\ Sequential
  \/ DeleteProduct("p1") /\ Sequential
  \/ \E u \in CartUsers : ValidateCartForCheckout(u)

SpecValidate == InitCart /\ [][NextValidate]_vars

\* ================================================================ claims
\* quantity of product p over the items of an order
RECURSIVE QtyOrdered(_, _)
QtyOrdered(items, p) ==
  IF items = <<>> THEN 0
  ELSE (IF items[1].productId = p THEN items[1].quantity ELSE 0)
       + QtyOrdered(Tail(items), p)

IsCancelCall(c) ==
  c.op = "cancelOrder" \/ (c.op = "updateOrderStatus" /\ c.arg = "CANCELLED")

ForwardSteps ==
  {<<"PENDING", "CONFIRMED">>, <<"CONFIRMED", "PROCESSING">>,
   <<"PROCESSING", "SHIPPED">>, <<"SHIPPED", "DELIVERED">>}

LegalStatusChange(from, to) ==
  \/ <<from, to>> \in ForwardSteps
  \/ to = "CANCELLED" /\ from \notin {"DELIVERED", "CANCELLED", "REFUNDED"}
  \/ to = "REFUNDED"

\* C1: every change of a stored order status is a single forward step of
\* PENDING -> CONFIRMED -> PROCESSING -> SHIPPED -> DELIVERED, a cancellation
\* of a non-terminal order, or a change to REFUNDED.
C1_StatusChangesFollowTable ==
  [][\A o \in OrderIds :
       (orders[o].exists /\ orders'[o].status # orders[o].status)
         => LegalStatusChange(orders[o].status, orders'[o].status)]_vars

C1_Witness ==
  /\ last.op = "updateOrderStatus" /\ last.arg = "DELIVERED" /\ last.result = "ok"
  /\ orders[last.id].status = "DELIVERED"

\* C2: once the stored status of an order is CANCELLED or REFUNDED, no call
\* changes it.
C2_TerminalStatusAbsorbing ==
  [][\A o \in OrderIds :
       (orders[o].exists /\ orders[o].status \in {"CANCELLED", "REFUNDED"})
         => orders'[o].status = orders[o].status]_vars

\* C3: updatePaymentStatus(id, REFUNDED) on an order that is not both PAID
\* and SHIPPED or DELIVERED is rejected: it changes neither the order nor any
\* stock.
C3_RefundOnlyWhenPaidAndShipped ==
  [][\A o \in OrderIds :
       (/\ last'.op = "updatePaymentStatus" /\ last'.arg = "REFUNDED"
        /\ last'.id = o
        /\ orders[o].exists
        /\ ~canBeRefunded(orders[o]))
         => /\ last'.result # "ok"
            /\ orders'[o] = orders[o]
            /\ products' = products]_vars

PaymentSteps ==
  {<<"PENDING", "PAID">>, <<"PENDING", "FAILED">>, <<"PAID", "REFUNDED">>}

\* C4: the stored paymentStatus changes only along PENDING -> PAID,
\* PENDING -> FAILED and PAID -> REFUNDED.
C4_PaymentChangesFollowMachine ==
  [][\A o \in OrderIds :
       (orders[o].exists /\ orders'[o].paymentStatus # orders[o].paymentStatus)
         => <<orders[o].paymentStatus, orders'[o].paymentStatus>> \in PaymentSteps]_vars

\* C5: a cancel call (cancelOrder or updateOrderStatus to CANCELLED) on an
\* order whose stored status is CANCELLED is rejected and leaves the order and
\* every product's stock unchanged.
C5_CancelTwiceRejected ==
  [][\A o \in OrderIds :
       (/\ IsCancelCall(last') /\ last'.id = o
        /\ orders[o].exists /\ orders[o].status = "CANCELLED")
         => /\ last'.result # "ok"
            /\ orders' = orders
            /\ products' = products]_vars

C5_Witness ==
  /\ last.op = "cancelOrder" /\ last.result = "businessLogic"
  /\ orders[last.id].status = "CANCELLED"
  /\ \E p \in Products : QtyOrdered(orders[last.id].items, p) > 0 /\ products[p].exists

\* what the claim calls a request rejected by validation
ValidationRejects(r) ==
  \/ ~users[r.userId].exists
  \/ ~users[r.userId].isActive
  \/ Len(r.cartItems) = 0
  \/ \E i \in 1..Len(r.cartItems) :
       \/ r.cartItems[i].quantity <= 0
       \/ ~products[r.cartItems[i].productId].exists
       \/ ~products[r.cartItems[i].productId].isActive
       \/ r.cartItems[i].quantity > products[r.cartItems[i].productId].stock

\* C6: no step leaves a product with negative stock; a product creation with
\* negative stock and a checkout asking for more than the stock are rejected
\* and change no stock.
C6_StockNeverNegative ==
  [][/\ \A p \in Products : products'[p].stock >= 0
     /\ (last'.op = "createProduct" /\ last'.msg = "validationFailed")
          => products' = products
     /\ (last'.op = "createOrder"
         /\ last'.msg \in {"insufficientStock", "reduceStockFailed"})
          => /\ last'.result # "ok"
             /\ \A p \in Products : products'[p].stock <= products[p].stock]_vars

C6_Witness ==
  /\ last.op = "createOrder" /\ last.msg = "reduceStockFailed"
  /\ \E p \in Products : products[p].exists /\ products[p].stock = 0

\* C7: a createOrder call whose request fails validation (unknown or inactive
\* user, no line items, a non-positive quantity, a missing or inactive
\* product, or a quantity above the product's stock) is rejected, persists no
\* order and changes no product; stated contrapositively: a createOrder step
\* that succeeds or changes the stores comes from no such request.
C7_RejectedCheckoutHasNoEffect ==
  [][(/\ last'.op = "createOrder"
      /\ (last'.result = "ok" \/ orders' # orders \/ products' # products))
       => \A r \in Requests :
            (last'.arg = r.userId /\ CreateOrder(r)) => ~ValidationRejects(r)]_vars

C7_Witness ==
  /\ last.op = "createOrder" /\ last.msg = "insufficientStock"
  /\ \A o \in OrderIds : ~orders[o].exists
  /\ \E p \in Products : products[p].exists /\ products[p].isActive

\* C8: after a successful createOrder the persisted order is PENDING with
\* payment PENDING, and each product's stock is its stock before the call
\* minus the total quantity ordered of it.
C8_CheckoutDecrementsStock ==
  [][(last'.op = "createOrder" /\ last'.result = "ok")
       => /\ ~orders[last'.id].exists
          /\ orders'[last'.id].exists
          /\ orders'[last'.id].status = "PENDING"
          /\ orders'[last'.id].paymentStatus = "PENDING"
          /\ \A p \in Products :
               products'[p].stock
                 = products[p].stock - QtyOrdered(orders'[last'.id].items, p)]_vars

C8_Witness ==
  /\ last.op = "createOrder" /\ last.result = "ok"
  /\ Len(orders[last.id].items) = 2
  /\ orders[last.id].items[1].productId = orders[last.id].items[2].productId
  /\ products[orders[last.id].items[1].productId].stock = 0

C10_CancelRestoresStock ==
  [][\A o \in OrderIds :
       (/\ IsCancelCall(last') /\ last'.id = o
        /\ orders[o].exists
        /\ orders[o].status \in {"PENDING", "CONFIRMED", "PROCESSING", "SHIPPED"})
         => /\ last'.result = "ok"
            /\ orders'[o].status = "CANCELLED"
            /\ \A p \in Products :
                 products'[p].stock
                   = products[p].stock + QtyOrdered(orders[o].items, p)]_vars

C10_Witness ==
  /\ last.op = "cancelOrder" /\ last.result = "ok"
  /\ orders[last.id].status = "CANCELLED"
  /\ orders[last.id].shippedAt
  /\ Len(orders[last.id].items) = 2
  /\ orders[last.id].items[1].productId # orders[last.id].items[2].productId

\* C11: updatePaymentStatus(id, PAID) on a stored order succeeds and writes
\* paymentStatus PAID; in the same step the stored status becomes CONFIRMED
\* when it was PENDING and stays what it was otherwise.
C11_PaidAutoConfirms ==
  [][\A o \in OrderIds :
       (/\ last'.op = "updatePaymentStatus" /\ last'.arg = "PAID"
        /\ last'.id = o
        /\ orders[o].exists)
         => /\ last'.result = "ok"
            /\ orders'[o].paymentStatus = "PAID"
            /\ orders'[o].status = (IF orders[o].status = "PENDING"
                                    THEN "CONFIRMED" ELSE orders[o].status)
            /\ products' = products]_vars

C11_Witness ==
  /\ last.op = "updatePaymentStatus" /\ last.arg = "PAID" /\ last.result = "ok"
  /\ orders[last.id].status = "CONFIRMED"
  /\ orders[last.id].paymentStatus = "PAID"
  /\ ~orderCache[last.id].exists

\* the transition a call attempts, and whether the stored order is a valid
\* source of it
AttemptsIllegalTransition(c, order) ==
  \/ c.op = "updateOrderStatus" /\ c.arg = "CONFIRMED" /\ order.status # "PENDING"
  \/ c.op = "updateOrderStatus" /\ c.arg = "PROCESSING" /\ order.status # "CONFIRMED"
  \/ c.op = "updateOrderStatus" /\ c.arg = "SHIPPED" /\ order.status # "PROCESSING"
  \/ c.op = "updateOrderStatus" /\ c.arg = "DELIVERED" /\ order.status # "SHIPPED"
  \/ IsCancelCall(c) /\ order.status \in {"DELIVERED", "CANCELLED", "REFUNDED"}
  \/ c.op = "updatePaymentStatus" /\ c.arg = "REFUNDED" /\ order.paymentStatus # "PAID"

\* C12: a call that attempts a transition from a stored order that is not a
\* valid source of it (confirm not from PENDING, process not from CONFIRMED,
\* ship not from PROCESSING, deliver not from SHIPPED, cancel from DELIVERED,
\* CANCELLED or REFUNDED, refund when paymentStatus is not PAID) is rejected
\* and changes neither the stored orders nor any product.
C12_IllegalTransitionRejected ==
  [][\A o \in OrderIds :
       (/\ last'.id = o
        /\ orders[o].exists
        /\ AttemptsIllegalTransition(last', orders[o]))
         => /\ last'.result # "ok"
            /\ orders' = orders
            /\ products' = products]_vars

C12_Witness ==
  /\ last.op = "updatePaymentStatus" /\ last.arg = "REFUNDED"
  /\ last.result # "ok"
  /\ orders[last.id].exists
  /\ orders[last.id].paymentStatus = "FAILED"
  /\ orders[last.id].status = "SHIPPED"

\* C16: a cached entry order:<id>, when present, equals the stored order, so
\* getOrderById returns the stored status and paymentStatus.
C16_CachedEntryEqualsStored ==
  \A o \in OrderIds : orderCache[o].exists => orderCache[o] = orders[o]

C16_Witness ==
  /\ last.op = "updateOrderStatus" /\ last.result # "ok"
  /\ orderCache[last.id].exists
  /\ orders[last.id].status = "CANCELLED"
  /\ orders[last.id].paymentStatus = "PAID"

\* the kind of the first failing precondition of a line item, "none" when the
\* item passes
ItemFailureKind(item) ==
  IF item.quantity <= 0 THEN "validation"
  ELSE IF ~products[item.productId].exists THEN "notFound"
  ELSE IF ~products[item.productId].isActive THEN "businessLogic"
  ELSE IF products[item.productId].stock < item.quantity THEN "businessLogic"
  ELSE "none"

\* the kind of the first failing precondition of a request, "none" when all
\* the listed preconditions hold
ExpectedKind(r) ==
  IF ~users[r.userId].exists THEN "notFound"
  ELSE IF ~users[r.userId].isActive THEN "businessLogic"
  ELSE IF Len(r.cartItems) = 0 THEN "validation"
  ELSE IF \A i \in 1..Len(r.cartItems) : ItemFailureKind(r.cartItems[i]) = "none"
       THEN "none"
  ELSE LET first == CHOOSE i \in 1..Len(r.cartItems) :
                      /\ ItemFailureKind(r.cartItems[i]) # "none"
                      /\ \A j \in 1..(i - 1) : ItemFailureKind(r.cartItems[j]) = "none"
       IN ItemFailureKind(r.cartItems[first])

\* C17: createOrder reports the first failing precondition with its kind, in
\* the order user missing (NotFound), user inactive (BusinessLogic), no line
\* items (Validation), then per line item in request order quantity <= 0
\* (Validation), product missing (NotFound), product inactive (BusinessLogic),
\* stock < quantity (BusinessLogic).
C17_FirstFailingPrecondition ==
  [][(last'.op = "createOrder" /\ ExpectedKind(lastRequest') # "none")
       => last'.result = ExpectedKind(lastRequest')]_vars

\* the second item lacks stock and names a product that is there, the first
\* one passes: the failure reported is the second item's
C17_Witness ==
  /\ last.op = "createOrder" /\ last.result = "businessLogic"
  /\ last.msg = "insufficientStock"
  /\ Len(lastRequest.cartItems) = 2
  /\ lastRequest.cartItems[1].productId # lastRequest.cartItems[2].productId
  /\ ItemFailureKind(lastRequest.cartItems[1]) = "none"

\* C20: updateOrderStatus to PENDING or REFUNDED and updatePaymentStatus to
\* PENDING fail with Validation on a stored order, whatever its state, and
\* every updateOrderStatus and updatePaymentStatus call fails with NotFound
\* when no order has the id; the failing call changes neither the stored
\* orders nor any product.
C20_NoEventTargetsRejected ==
  [][\A o \in OrderIds :
       (/\ last'.id = o
        /\ \/ last'.op = "updateOrderStatus"
           \/ last'.op = "updatePaymentStatus")
         => /\ ~orders[o].exists
                 => /\ last'.result = "notFound"
                    /\ orders' = orders /\ products' = products
            /\ (/\ orders[o].exists
                /\ \/ last'.op = "updateOrderStatus" /\ last'.arg \in {"PENDING", "REFUNDED"}
                   \/ last'.op = "updatePaymentStatus" /\ last'.arg = "PENDING")
                 => /\ last'.result = "validation"
                    /\ orders' = orders /\ products' = products]_vars

C20_Witness ==
  /\ last.op = "updateOrderStatus" /\ last.arg = "REFUNDED"
  /\ last.result = "validation"
  /\ orders[last.id].status = "DELIVERED"
  /\ orders[last.id].paymentStatus = "PAID"

\* C19: a call that attempts a transition from a stored order that is not a
\* valid source of it is reported with the BusinessLogic kind, through
\* updateOrderStatus and updatePaymentStatus as through cancelOrder, and the
\* error object of a BusinessLogic error differs from that of a Validation
\* error.
C19_IllegalTransitionIsBusinessLogic ==
  [][\A o \in OrderIds :
       (/\ last'.id = o
        /\ orders[o].exists
        /\ AttemptsIllegalTransition(last', orders[o]))
         => /\ last'.result = "businessLogic"
            /\ ErrorThrown("businessLogic") # ErrorThrown("validation")]_vars

\* C13: when the Product Store fails during stock restoration (findById or
\* update throws for an item), the enclosing cancelOrder,
\* updateOrderStatus(id, CANCELLED) or updatePaymentStatus(id, REFUNDED) call
\* still succeeds and the order is stored as CANCELLED, or as REFUNDED with
\* paymentStatus REFUNDED.
C13_RestoreFailureSwallowed ==
  [][fault'.kind \in RestoreFaults
       => /\ last'.result = "ok"
          /\ \/ /\ IsCancelCall(last')
                /\ orders'[last'.id].status = "CANCELLED"
             \/ /\ last'.op = "updatePaymentStatus" /\ last'.arg = "REFUNDED"
                /\ orders'[last'.id].status = "REFUNDED"
                /\ orders'[last'.id].paymentStatus = "REFUNDED"]_vars

\* the update of the second product failed: the first item is back in stock,
\* the second is not, and the order is cancelled
C13_Witness ==
  /\ last.op = "cancelOrder" /\ last.result = "ok"
  /\ fault = [kind |-> "productUpdate", at |-> 2]
  /\ orders[last.id].status = "CANCELLED"
  /\ products["p1"].stock = MaxStock
  /\ products["p2"].stock = MaxStock - 1

\* C14: a call in which a cache operation (get, set-with-TTL, delete,
\* delete-by-pattern) fails is not aborted by that failure: it does not end
\* with the cache failure as its error.
C14_CacheFailureNeverAborts ==
  [][fault'.kind \in CacheFaults => last'.msg # "cacheFailure"]_vars

\* C15: also after cache failures, a call that attempts a transition that is
\* illegal for the order as stored (a cancel of a stored CANCELLED or
\* DELIVERED order among them) writes neither the stored orders nor any
\* product's stock.
C15_StoreAuthoritative ==
  [][\A o \in OrderIds :
       (/\ last'.id = o
        /\ orders[o].exists
        /\ AttemptsIllegalTransition(last', orders[o]))
         => /\ orders' = orders
            /\ products' = products]_vars

\* C18: two overlapping createOrder calls are each guarded by the stock they
\* read themselves only: a call that succeeded found, for each of its items,
\* the quantity available at its check and again at its re-read, and no
\* stored stock is negative; nothing compares the sum of the two quantities
\* with the stock, so both calls can succeed with a sum above the stock
\* before the calls (the witness).
C18_CallsGuardedByOwnReads ==
  /\ \A p \in Products : products[p].stock >= 0
  /\ \A c \in CallIds :
       (calls[c].pc = "done" /\ calls[c].result = "ok")
         => \A i \in 1..Len(calls[c].items) :
              /\ calls[c].items[i].quantity <= calls[c].checked[i]
              /\ calls[c].items[i].quantity <= calls[c].read[i]

\* both calls succeeded on the same product, both saw the same stock at their
\* check (the stock before the calls, as a write lowers it), and the sum of
\* their quantities is above it
C18_Witness ==
  /\ \A c \in CallIds :
       /\ calls[c].pc = "done" /\ calls[c].result = "ok"
       /\ Len(calls[c].items) = 1
       /\ calls[c].items[1].productId = "p1"
       /\ orders[calls[c].id].exists
  /\ calls[1].checked[1] = calls[2].checked[1]
  /\ calls[1].items[1].quantity + calls[2].items[1].quantity > calls[1].checked[1]
  /\ products["p1"].stock = calls[1].checked[1] - calls[1].items[1].quantity

\* quantity of product p held by the stored orders that are neither CANCELLED
\* nor REFUNDED
RECURSIVE QtyHeld(_, _, _)
QtyHeld(ords, ids, p) ==
  IF ids = {} THEN 0
  ELSE LET o == CHOOSE x \in ids : TRUE
       IN (IF ords[o].exists /\ ords[o].status \notin {"CANCELLED", "REFUNDED"}
           THEN QtyOrdered(ords[o].items, p) ELSE 0)
          + QtyHeld(ords, ids \ {o}, p)

\* C22: stock is conserved: for each product, stock plus the quantity held
\* by the orders that are neither CANCELLED nor REFUNDED stays what it was
\* when the product was created; stated step by step: no call on an existing
\* product changes that sum.
C22_StockConserved ==
  [][\A p \in Products :
       products[p].exists
         => products'[p].stock + QtyHeld(orders', OrderIds, p)
              = products[p].stock + QtyHeld(orders, OrderIds, p)]_vars

\* C23: a createOrder call that persists an order returns it: no order is
\* persisted by a call that then fails.
C23_PersistedOrderIsReturned ==
  [][(last'.op = "createOrder" /\ orders' # orders) => last'.result = "ok"]_vars

\* C21: after a createOrder call succeeds for a user, that user's cart holds
\* no items.
C21_CheckoutClearsCart ==
  [][(last'.op = "createOrder" /\ last'.result = "ok")
       => carts'[last'.arg].items = <<>>]_vars

\* C27: a cancelOrder, updateOrderStatus(id, CANCELLED) or
\* updatePaymentStatus(id, REFUNDED) call that fails, the failure of the order
\* update included, leaves the stock of every product unchanged.
C27_FailedCancelLeavesStock ==
  [][(/\ \/ IsCancelCall(last')
         \/ last'.op = "updatePaymentStatus" /\ last'.arg = "REFUNDED"
      /\ last'.result # "ok")
       => products' = products]_vars

\* C28: when a store call of the reservation loop fails after createOrder
\* persisted the order, the order stays persisted, the items before the
\* failing one stay decremented, the failing item and the items after it are
\* not decremented, and the call reports an error.
C28_NoRollback ==
  [][fault'.kind \in ReserveFaults
       => /\ last'.op = "createOrder" /\ last'.result # "ok"
          /\ ~orders[last'.id].exists /\ orders'[last'.id].exists
          /\ \A j \in 1..Len(orders'[last'.id].items) :
               LET it == orders'[last'.id].items[j]
               IN products'[it.productId].stock =
                    products[it.productId].stock
                      - (IF j < fault'.at THEN it.quantity ELSE 0)]_vars

\* the update of the second product failed in the reservation loop: the order
\* is stored, the first product is decremented, the second is not
C28_Witness ==
  /\ last.op = "createOrder" /\ last.result # "ok"
  /\ fault = [kind |-> "reserveUpdate", at |-> 2]
  /\ orders[last.id].exists /\ Len(orders[last.id].items) = 2
  /\ products["p1"].stock = MaxStock - 1
  /\ products["p2"].stock = MaxStock

\* C29: when the restoration of one item of an order fails, the items after
\* it are still restored: the stock of each of their products grows by the
\* item's quantity.
C29_RemainingItemsRestored ==
  [][fault'.kind \in RestoreFaults
       => \A j \in (fault'.at + 1)..Len(orders[last'.id].items) :
            LET it == orders[last'.id].items[j]
            IN products'[it.productId].stock =
                 products[it.productId].stock + it.quantity]_vars

\* C30: once an order is stored, no status or payment transition and no
\* later change of a product's name, price, stock or active flag changes the
\* order's items or its subtotal, taxes, shipping and total.
C30_SnapshotImmutable ==
  [][\A o \in OrderIds :
       orders[o].exists
         => /\ orders'[o].exists
            /\ orders'[o].items = orders[o].items
            /\ orders'[o].subtotal = orders[o].subtotal
            /\ orders'[o].taxes = orders[o].taxes
            /\ orders'[o].shipping = orders[o].shipping
            /\ orders'[o].total = orders[o].total]_vars

\* the product was renamed, repriced and deactivated after the sale, and the
\* order went through a transition since: its item still carries the name
\* and the price of the sale
C30_Witness ==
  /\ last.op = "updatePaymentStatus" /\ last.result = "ok"
  /\ orders["o1"].exists /\ orders["o1"].status = "CONFIRMED"
  /\ products["p1"].name = "renamed" /\ ~products["p1"].isActive
  /\ products["p1"].price # PriceOf("p1")
  /\ orders["o1"].items[1].productName = NameOf("p1")
  /\ orders["o1"].items[1].unitPrice = PriceOf("p1")
  /\ orders["o1"].total = 50000 + TaxOf(50000) + ShippingOf(50000)

\* C24: whatever the interleaving of calls on the same order, every change
\* of its stored status follows the transition table; a delivery and a
\* cancellation of a SHIPPED order never take the stored status from
\* DELIVERED to CANCELLED.
C24_RacingWritesFollowTable ==
  [][orders'[PlacedOrderId].status # orders[PlacedOrderId].status
       => LegalStatusChange(orders[PlacedOrderId].status,
                            orders'[PlacedOrderId].status)]_vars

\* C25: when the calls on the order are cancelOrder calls, whatever their
\* interleaving, the item quantities of the order are added back to the
\* stock at most once: no stock exceeds what it was when the calls began
\* plus the quantity ordered.
C25_ConcurrentCancelsRestoreOnce ==
  (\A c \in OrderCallIds : calls[c].op \in {"", "cancelOrder"})
    => \A p \in Products :
         products[p].stock
           <= (IF p = "p1" THEN MaxStock - 1 ELSE MaxStock)
                + QtyOrdered(PlacedOrder.items, p)

\* C26: under every interleaving of createOrder calls with cancellations and
\* refunds, no stored stock is negative.
C26_StockNeverNegative ==
  \A p \in Products : products[p].stock >= 0

\* a createOrder call, a cancellation and a refund overlapped and all three
\* succeeded: the checkout re-read the stock before either restoration was
\* written and wrote zero after both
C26_Witness ==
  /\ \A c \in OrderCallIds : calls[c].pc = "done" /\ calls[c].result = "ok"
  /\ \E c \in OrderCallIds : calls[c].op = "createOrder"
  /\ \E c \in OrderCallIds : calls[c].op = "cancelOrder"
  /\ \E c \in OrderCallIds :
       calls[c].op = "updatePaymentStatus" /\ calls[c].arg = "REFUNDED"
  /\ products["p1"].stock = 0

\* C31: a successful updatePaymentStatus(id, FAILED) changes the
\* paymentStatus of the order and nothing else: its status, items and totals
\* and the stock of every product stay as they were, whatever the status.
C31_PaymentFailedChangesOnlyPayment ==
  [][(/\ last'.op = "updatePaymentStatus" /\ last'.arg = "FAILED"
      /\ last'.result = "ok")
       => /\ orders' = [orders EXCEPT ![last'.id].paymentStatus = "FAILED"]
          /\ products' = products]_vars

\* the payment of a shipped order was marked FAILED: the order is still
\* SHIPPED
C31_Witness ==
  /\ last.op = "updatePaymentStatus" /\ last.arg = "FAILED" /\ last.result = "ok"
  /\ orders[last.id].status = "SHIPPED"
  /\ orders[last.id].paymentStatus = "FAILED"

\* C32: timestamps follow the transitions: a new order has neither; shippedAt
\* is set by the step from PROCESSING to SHIPPED and by no other, deliveredAt
\* by the step from SHIPPED to DELIVERED and by no other, and neither is ever
\* unset; so SHIPPED and DELIVERED orders have shippedAt, DELIVERED orders
\* have deliveredAt, and an order cancelled before shipping has neither.
C32_TimestampsFollowTransitions ==
  [][\A o \in OrderIds :
       /\ (~orders[o].exists /\ orders'[o].exists)
            => ~orders'[o].shippedAt /\ ~orders'[o].deliveredAt
       /\ orders[o].exists
            => /\ orders'[o].shippedAt
                    = (orders[o].shippedAt
                         \/ (orders[o].status = "PROCESSING"
                               /\ orders'[o].status = "SHIPPED"))
               /\ orders'[o].deliveredAt
                    = (orders[o].deliveredAt
                         \/ (orders[o].status = "SHIPPED"
                               /\ orders'[o].status = "DELIVERED"))
       /\ orders'[o].status \in {"SHIPPED", "DELIVERED"} => orders'[o].shippedAt
       /\ orders'[o].status = "DELIVERED" => orders'[o].deliveredAt
       /\ orders'[o].status \in {"PENDING", "CONFIRMED", "PROCESSING"}
            => ~orders'[o].shippedAt /\ ~orders'[o].deliveredAt]_vars

\* an order cancelled after it was shipped keeps shippedAt and has no
\* deliveredAt
C32_Witness ==
  /\ IsCancelCall(last) /\ last.result = "ok"
  /\ orders[last.id].status = "CANCELLED"
  /\ orders[last.id].shippedAt /\ ~orders[last.id].deliveredAt

\* C33: after a write to a product (a stock change by createOrder, cancelOrder
\* or a refund, a flag change by activateProduct or deactivateProduct),
\* getProductById does not return the earlier stock or flag from the cache:
\* what it returns carries the stored stock and the stored flag.
C33_ProductReadIsCurrent ==
  [][last'.op = "getProductById"
       => /\ ProductLoad(last'.arg).stock = products[last'.arg].stock
          /\ ProductLoad(last'.arg).isActive = products[last'.arg].isActive]_vars

\* C34: activateProduct and deactivateProduct leave the stored stock and the
\* stored price of every product as they were before the call.
C34_SetActiveKeepsStockAndPrice ==
  [][last'.op \in {"activateProduct", "deactivateProduct"}
       => \A p \in Products :
            /\ products'[p].stock = products[p].stock
            /\ products'[p].price = products[p].price]_vars

\* C36: after any sequence of addItemToCart, updateCartItemQuantity,
\* removeItemFromCart, clearCart and mergeGuestCart calls, in the cart of a
\* user each product has at most one item, each item has a positive quantity
\* and subtotal = quantity x price, total is the sum of the subtotals and
\* itemCount the sum of the quantities.
C36_CartWellFormed ==
  \A u \in Users :
    LET cart == carts[u]
    IN /\ \A i, j \in 1..Len(cart.items) :
            cart.items[i].productId = cart.items[j].productId => i = j
       /\ \A i \in 1..Len(cart.items) :
            /\ cart.items[i].quantity > 0
            /\ cart.items[i].subtotal = cart.items[i].quantity * cart.items[i].price
       /\ cart.total = SumSubtotals(cart.items)
       /\ cart.itemCount = SumQuantities(cart.items)

\* a cart item passes the four tests: its product exists, is active, has
\* stock for the quantity and has a live price within 0.01 of the snapshot
ItemPasses(prods, item) ==
  LET product == prods[item.productId]
  IN /\ product.exists
     /\ product.isActive
     /\ product.stock >= item.quantity
     /\ item.price - product.price <= Cent
     /\ product.price - item.price <= Cent

\* number of errors returned for the product of a cart item
ErrorsAbout(errors, productId) ==
  Cardinality({i \in 1..Len(errors) : errors[i].productId = productId})

\* C35: validateCartForCheckout for an existing user with a non-empty cart
\* returns without throwing; isValid is true exactly when every cart item's
\* product exists, is active, has stock >= the item quantity and has a live
\* price within 0.01 of the cart's price snapshot; otherwise every offending
\* item has at least one error, and exactly one when its product is missing
\* or inactive.
C35_ValidationReportsEveryItem ==
  [][(/\ last'.op = "validateCartForCheckout"
      /\ users[last'.arg].exists
      /\ carts[last'.arg].items # <<>>)
       => LET items == carts[last'.arg].items
          IN /\ last'.result = "ok"
             /\ validation'.isValid
                  = (\A i \in 1..Len(items) : ItemPasses(products, items[i]))
             /\ \A i \in 1..Len(items) :
                  ~ItemPasses(products, items[i])
                    => /\ ErrorsAbout(validation'.errors, items[i].productId) >= 1
                       /\ (~products[items[i].productId].exists
                             \/ ~products[items[i].productId].isActive)
                            => ErrorsAbout(validation'.errors,
                                           items[i].productId) = 1]_vars

====
